---- MODULE Spec2Model ----
(***************************************************************************)
(* Model of github.com/mikanbox/isuexporter (isuexporter.go).              *)
(*                                                                         *)
(* FileSpanExporter writes every span of a batch as an indented JSON       *)
(* document followed by a newline to an *os.File created at construction.  *)
(* TraceFileProvider wires the exporter into an OpenTelemetry tracer       *)
(* provider (otel/sdk v1.31.0, pinned in go.mod) and returns a cleanup     *)
(* closure.                                                                *)
(*                                                                         *)
(* File content and JSON output are sequences of string tokens.            *)
(***************************************************************************)
EXTENDS Integers, Sequences, FiniteSets, TLC

\* ---------------------------------------------------------------- bounds
MaxBatch == 2        \* longest batch handed to one ExportSpans call
MaxExports == 1      \* ExportSpans calls made directly on one sink
MaxShutdowns == 2    \* Shutdown calls made directly on one sink
MaxTeardowns == 2    \* invocations of the cleanup closure
MaxPipeExports == 1  \* batches the SDK worker hands to the exporter
MaxWorkerBatch == 2  \* longest batch the SDK worker hands over

\* ------------------------------------------------------------ the values
Nil == "nil"                         \* Go nil (error or pointer)
ErrNotExist == "ENOENT"              \* os.Create: parent directory missing
ErrClosed == "ErrClosed"             \* os.File used after Close
ErrNoSpace == "ENOSPC"               \* write(2) failure
ErrIO == "EIO"                       \* close(2) failure
ErrUnsupportedValue == "json.UnsupportedValueError"
ErrTimeRange == "Time.MarshalJSON: year outside of range [0,9999]"

GoodPath == "/tmp/out.json"
BadPath == "/nodir/out.json"         \* directory does not exist
Paths == {GoodPath, BadPath}
ExistingDirs == {"/tmp"}
Dir(p) == IF p = GoodPath THEN "/tmp" ELSE "/nodir"

Absent == <<"<absent>">>             \* no file at the path

\* attribute.KeyValue values and spans (sdktrace.ReadOnlySpan accessors)
KV(k, t, v) == [Key |-> k, Value |-> [Type |-> t, Value |-> v]]
SpanRequest == [name |-> "request", startTime |-> 2024, endTime |-> 2025,
                attributes |-> <<KV("http.method", "STRING", "GET")>>]
SpanDb == [name |-> "db", startTime |-> 2025, endTime |-> 2025,
           attributes |-> <<>>]
SpanNaN == [name |-> "nan", startTime |-> 2024, endTime |-> 2025,
            attributes |-> <<KV("ratio", "FLOAT64", "NaN")>>]
Spans == {SpanRequest, SpanDb, SpanNaN}

RECURSIVE SeqsUpTo(_, _)
SeqsUpTo(S, n) ==
  IF n = 0 THEN {<<>>}
  ELSE LET shorter == SeqsUpTo(S, n - 1)
       IN shorter \cup {Append(q, x) : q \in {r \in shorter : Len(r) = n - 1}, x \in S}
Batches == SeqsUpTo(Spans, MaxBatch)
WorkerBatches == SeqsUpTo(Spans, MaxWorkerBatch) \ {<<>>}

\* ------------------------------------------- encoding/json.MarshalIndent
\* time.Time.MarshalJSON: RFC 3339 text, error when the year is out of range
MarshalTime(t) ==
  IF t < 0 \/ t > 9999
    THEN [err |-> ErrTimeRange, data |-> <<>>]
    ELSE [err |-> Nil, data |-> <<"\"" \o ToString(t) \o "-01-01T00:00:00Z\"">>]

\* attribute.Value.MarshalJSON: {"Type": ..., "Value": ...}; NaN is unsupported
MarshalKV(kv) ==
  IF kv.Value.Type = "FLOAT64" /\ kv.Value.Value = "NaN"
    THEN [err |-> ErrUnsupportedValue, data |-> <<>>]
    ELSE [err |-> Nil,
          data |-> <<"{", "\n", "\"Key\": \"" \o kv.Key \o "\",", "\n",
                     "\"Value\":", "{", "\n",
                     "\"Type\": \"" \o kv.Value.Type \o "\",", "\n",
                     "\"Value\": \"" \o kv.Value.Value \o "\"", "\n",
                     "}", "\n", "}">>]

RECURSIVE MarshalAttrs(_, _)
\* a nil slice is "null"; otherwise an indented array, first error wins
MarshalAttrs(attrs, i) ==
  IF i > Len(attrs) THEN [err |-> Nil, data |-> <<>>]
  ELSE LET one == MarshalKV(attrs[i])
           rest == MarshalAttrs(attrs, i + 1)
       IN IF one.err # Nil THEN one
          ELSE IF rest.err # Nil THEN rest
          ELSE [err |-> Nil, data |-> <<"\n">> \o one.data \o rest.data]

MarshalAttributes(attrs) ==
  IF Len(attrs) = 0 THEN [err |-> Nil, data |-> <<"null">>]
  ELSE LET body == MarshalAttrs(attrs, 1)
       IN IF body.err # Nil THEN body
          ELSE [err |-> Nil, data |-> <<"[">> \o body.data \o <<"\n", "]">>]

\* spanToMap: the four keys; json sorts map keys
spanToMap(span) ==
  [name |-> span.name, startTime |-> span.startTime,
   endTime |-> span.endTime, attributes |-> span.attributes]

\* json.MarshalIndent(m, "", "  "): keys in sorted order, one member per line
MarshalIndent(m) ==
  LET a == MarshalAttributes(m.attributes)
      e == MarshalTime(m.endTime)
      s == MarshalTime(m.startTime)
  IN IF a.err # Nil THEN a
     ELSE IF e.err # Nil THEN e
     ELSE IF s.err # Nil THEN s
     ELSE [err |-> Nil,
           data |-> <<"{", "\n", "\"attributes\":">> \o a.data
                    \o <<",", "\n", "\"endTime\": " \o e.data[1] \o ",">>
                    \o <<"\n", "\"name\": \"" \o m.name \o "\",">>
                    \o <<"\n", "\"startTime\": " \o s.data[1]>>
                    \o <<"\n", "}">>]

\* ------------------------------------------------------------- variables
VARIABLES
  disk,      \* path -> file content (token sequence) or Absent
  exporter,  \* "unset" before construction, Nil, or "ptr" (*FileSpanExporter)
  file,      \* the *os.File held in FileSpanExporter.file
  last,      \* the most recent call: its arguments and what it returned
  calls,     \* the calls made on the sink so far, in order
  tp,        \* tracer provider: "none", "Active" or "ShutDown"
  globalTP,  \* TRUE once otel.SetTracerProvider installed the provider
  setup,     \* what TraceFileProvider returned
  cleanup,   \* the running invocation of the cleanup closure
  stats,     \* counters: cleanup invocations, file.Close calls, worker exports
  crashed,   \* TRUE after a nil-pointer panic
  procs,     \* concurrent ExportSpans callers
  wlog       \* which caller wrote each record of the file, in file order

vars == <<disk, exporter, file, last, calls, tp, globalTP, setup, cleanup,
          stats, crashed, procs, wlog>>
sinkVars == <<disk, exporter, file, last, calls>>
pipeVars == <<tp, globalTP, setup, cleanup, stats>>
concVars == <<procs, wlog>>

\* ------------------------------------------------------------- os.File
NoFile == [opened |-> FALSE, path |-> "", closed |-> FALSE, offset |-> 0]

\* os.Create: O_RDWR|O_CREATE|O_TRUNC; fails when the directory is missing
osCreate(d, filename) ==
  IF Dir(filename) \notin ExistingDirs
    THEN [err |-> ErrNotExist, file |-> NoFile, disk |-> d]
    ELSE [err |-> Nil,
          file |-> [opened |-> TRUE, path |-> filename, closed |-> FALSE, offset |-> 0],
          disk |-> [d EXCEPT ![filename] = <<>>]]

Min(a, b) == IF a < b THEN a ELSE b

\* bytes b placed at offset off of content c
PutAt(c, off, b) ==
  SubSeq(c, 1, off) \o b \o SubSeq(c, off + Len(b) + 1, Len(c))

\* what the device does at one write: succeed, or fail after n bytes
PartialLens == {0, 2}
NoFault == [fails |-> FALSE, n |-> 0]
Faults == {NoFault} \cup {[fails |-> TRUE, n |-> k] : k \in PartialLens}
\* the device's behaviour over the n writes of one call: at most one failure
FaultPlans(n) ==
  {[i \in 1..n |-> NoFault]}
    \cup {[i \in 1..n |-> IF i = k THEN ft ELSE NoFault] : k \in 1..n, ft \in Faults \ {NoFault}}
\* (*os.File).Write: ErrClosed on a closed file; the whole buffer in one
\* call under the descriptor's write lock, or, when the device fails, the
\* first `fault` bytes and an error
fileWrite(d, f, b, fault) ==
  IF f.closed THEN [err |-> ErrClosed, file |-> f, disk |-> d]
  ELSE LET n == IF fault.fails THEN Min(fault.n, Len(b) - 1) ELSE Len(b)
           out == SubSeq(b, 1, n)
       IN [err |-> IF fault.fails THEN ErrNoSpace ELSE Nil,
           file |-> [f EXCEPT !.offset = f.offset + n],
           disk |-> [d EXCEPT ![f.path] = PutAt(d[f.path], f.offset, out)]]

\* (*os.File).Close: ErrClosed the second time; a failing close(2) still
\* releases the descriptor
fileClose(f, closeFails) ==
  IF f.closed THEN [err |-> ErrClosed, file |-> f]
  ELSE [err |-> IF closeFails THEN ErrIO ELSE Nil,
        file |-> [f EXCEPT !.closed = TRUE]]

\* ---------------------------------------------------- FileSpanExporter
\* the sink is returned even though os.Create failed
NewFileSpanExporter_KeepsSink(d, filename) ==
  LET c == osCreate(d, filename)
  IN [exporter |-> "ptr", err |-> c.err, file |-> c.file, disk |-> c.disk]

NewFileSpanExporter(d, filename) ==
  LET c == osCreate(d, filename)
  IN IF c.err # Nil
       THEN [exporter |-> Nil, err |-> c.err, file |-> NoFile, disk |-> d]
       ELSE [exporter |-> "ptr", err |-> Nil, file |-> c.file, disk |-> c.disk]

\* the document is written without its trailing newline
ExportOne_NoNewline(e, d, f, span, fault) ==
  LET m == MarshalIndent(spanToMap(span))
  IN IF m.err # Nil
       THEN [err |-> m.err, panic |-> FALSE, file |-> f, disk |-> d]
     ELSE IF e = Nil
       THEN [err |-> Nil, panic |-> TRUE, file |-> f, disk |-> d]
     ELSE LET w == fileWrite(d, f, m.data, fault)
          IN [err |-> w.err, panic |-> FALSE, file |-> w.file, disk |-> w.disk]

\* the error of Write is dropped
ExportOne_DropsWriteErr(e, d, f, span, fault) ==
  LET m == MarshalIndent(spanToMap(span))
  IN IF m.err # Nil
       THEN [err |-> m.err, panic |-> FALSE, file |-> f, disk |-> d]
     ELSE IF e = Nil
       THEN [err |-> Nil, panic |-> TRUE, file |-> f, disk |-> d]
     ELSE LET w == fileWrite(d, f, Append(m.data, "\n"), fault)
          IN [err |-> Nil, panic |-> FALSE, file |-> w.file, disk |-> w.disk]

\* one iteration of the loop of ExportSpans on receiver e
\* (panic: f.file dereferences a nil receiver)
ExportOne(e, d, f, span, fault) ==
  LET m == MarshalIndent(spanToMap(span))
  IN IF m.err # Nil
       THEN [err |-> m.err, panic |-> FALSE, file |-> f, disk |-> d]
     ELSE IF e = Nil
       THEN [err |-> Nil, panic |-> TRUE, file |-> f, disk |-> d]
     ELSE LET w == fileWrite(d, f, Append(m.data, "\n"), fault)
          IN [err |-> w.err, panic |-> FALSE, file |-> w.file, disk |-> w.disk]

RECURSIVE ExportFrom_Continue(_, _, _, _, _, _)
\* the loop goes on after a failed record and reports the first error last
ExportFrom_Continue(e, d, f, spans, i, faults) ==
  IF i > Len(spans)
    THEN [err |-> Nil, panic |-> FALSE, file |-> f, disk |-> d, done |-> i - 1]
  ELSE LET r == ExportOne(e, d, f, spans[i], faults[i])
           rest == ExportFrom_Continue(e, r.disk, r.file, spans, i + 1, faults)
       IN IF r.panic
            THEN [err |-> r.err, panic |-> TRUE, file |-> r.file, disk |-> r.disk,
                  done |-> i - 1]
            ELSE [err |-> IF r.err # Nil THEN r.err ELSE rest.err, panic |-> rest.panic,
                  file |-> rest.file, disk |-> rest.disk, done |-> rest.done]

RECURSIVE ExportFrom(_, _, _, _, _, _)
\* the loop from index i on; faults[i] is the device's behaviour at write i
ExportFrom(e, d, f, spans, i, faults) ==
  IF i > Len(spans)
    THEN [err |-> Nil, panic |-> FALSE, file |-> f, disk |-> d, done |-> i - 1]
  ELSE LET r == ExportOne(e, d, f, spans[i], faults[i])
       IN IF r.err # Nil \/ r.panic
            THEN [err |-> r.err, panic |-> r.panic, file |-> r.file,
                  disk |-> r.disk, done |-> i - 1]
            ELSE ExportFrom(e, r.disk, r.file, spans, i + 1, faults)

ExportSpans(e, d, f, spans, faults) == ExportFrom(e, d, f, spans, 1, faults)

\* a Shutdown that skips Close on an already closed file
ExporterShutdown_Idempotent(e, f, closeFails) ==
  IF e = Nil THEN [err |-> Nil, panic |-> TRUE, file |-> f]
  ELSE IF f.closed THEN [err |-> Nil, panic |-> FALSE, file |-> f]
  ELSE LET c == fileClose(f, closeFails)
       IN [err |-> c.err, panic |-> FALSE, file |-> c.file]

\* (f *FileSpanExporter) Shutdown: f.file.Close()
ExporterShutdown(e, f, closeFails) ==
  IF e = Nil THEN [err |-> Nil, panic |-> TRUE, file |-> f]
  ELSE LET c == fileClose(f, closeFails)
       IN [err |-> c.err, panic |-> FALSE, file |-> c.file]

\* ------------------------------------------------------- initial state
NoCall == [op |-> "none", path |-> "", spans |-> <<>>, faults |-> <<>>,
           pre |-> <<>>, wasClosed |-> FALSE, err |-> Nil, panic |-> FALSE]
OldContents == {Absent, <<>>, <<"old", "\n">>}
NoSetup == [called |-> FALSE, ctorErr |-> Nil, err |-> Nil, cleanup |-> FALSE]
NoCleanup == [pc |-> "idle", ctxCancelled |-> FALSE, ctxAtShutdown |-> FALSE, err |-> Nil]
NoProc == [pc |-> "idle", spans |-> <<>>, i |-> 0, pending |-> <<>>, err |-> Nil,
           after |-> {}]
Procs == {1, 2}

Init ==
  /\ \E old \in OldContents : disk = [p \in Paths |-> IF p = GoodPath THEN old ELSE Absent]
  /\ exporter = "unset"
  /\ file = NoFile
  /\ last = NoCall
  /\ calls = <<>>
  /\ tp = "none"
  /\ globalTP = FALSE
  /\ setup = NoSetup
  /\ cleanup = NoCleanup
  /\ stats = [teardowns |-> 0, returned |-> 0, closeCalls |-> 0, exports |-> 0]
  /\ crashed = FALSE
  /\ procs = [p \in Procs |-> NoProc]
  /\ wlog = <<>>

\* content of the exporter's file ("" has no content)
Content(d, f) == IF f.opened THEN d[f.path] ELSE <<>>

\* ------------------------------------------- direct use of the exporter
CallCount(op) == Cardinality({i \in 1..Len(calls) : calls[i].op = op})

New(filename) ==
  /\ exporter = "unset"
  /\ \E r \in {NewFileSpanExporter(disk, filename)} :
        /\ exporter' = r.exporter
        /\ file' = r.file
        /\ disk' = r.disk
        /\ last' = [NoCall EXCEPT !.op = "New", !.path = filename,
                                  !.pre = disk[filename], !.err = r.err]
  /\ calls' = Append(calls, [op |-> "New", n |-> 0])
  /\ UNCHANGED <<pipeVars, crashed, concVars>>

Export(spans, faults) ==
  /\ exporter # "unset"
  /\ ~crashed
  /\ CallCount("Export") < MaxExports
  /\ \E r \in {ExportSpans(exporter, disk, file, spans, faults)} :
        /\ disk' = r.disk
        /\ file' = r.file
        /\ crashed' = r.panic
        /\ last' = [NoCall EXCEPT !.op = "Export", !.spans = spans, !.faults = faults,
                                  !.pre = Content(disk, file), !.wasClosed = file.closed,
                                  !.err = r.err, !.panic = r.panic]
  /\ calls' = Append(calls, [op |-> "Export", n |-> Len(spans)])
  /\ UNCHANGED <<exporter, pipeVars, concVars>>

Shutdown(closeFails) ==
  /\ exporter # "unset"
  /\ ~crashed
  /\ CallCount("Shutdown") < MaxShutdowns
  /\ \E r \in {ExporterShutdown(exporter, file, closeFails)} :
        /\ file' = r.file
        /\ crashed' = r.panic
        /\ last' = [NoCall EXCEPT !.op = "Shutdown", !.pre = Content(disk, file),
                                  !.wasClosed = file.closed,
                                  !.err = r.err, !.panic = r.panic]
  /\ calls' = Append(calls, [op |-> "Shutdown", n |-> 0])
  /\ UNCHANGED <<disk, exporter, pipeVars, concVars>>

NextSink ==
  \/ \E filename \in Paths : New(filename)
  \/ \E spans \in Batches : \E faults \in FaultPlans(Len(spans)) : Export(spans, faults)
  \/ \E closeFails \in BOOLEAN : Shutdown(closeFails)

SpecSink == Init /\ [][NextSink]_vars

\* ------------------------------------------------- TraceFileProvider
\* a setup routine that returns the constructor's error at once
TraceFileProvider_Aborts(d, filePath) ==
  LET r == NewFileSpanExporter(d, filePath)
  IN IF r.err # Nil
       THEN [exporter |-> r.exporter, file |-> r.file, disk |-> r.disk,
             tp |-> "none", globalTP |-> FALSE,
             ret |-> [called |-> TRUE, ctorErr |-> r.err, err |-> r.err, cleanup |-> FALSE]]
       ELSE [exporter |-> r.exporter, file |-> r.file, disk |-> r.disk,
             tp |-> "Active", globalTP |-> TRUE,
             ret |-> [called |-> TRUE, ctorErr |-> r.err, err |-> Nil, cleanup |-> TRUE]]

\* the routine up to its return: the constructor's error is dropped by the
\* empty if-block, the provider is built around whatever exporter came
\* back, installed globally, and (cleanup, nil) is returned
TraceFileProvider(d, filePath) ==
  LET r == NewFileSpanExporter(d, filePath)
  IN [exporter |-> r.exporter, file |-> r.file, disk |-> r.disk,
      tp |-> "Active", globalTP |-> TRUE,
      ret |-> [called |-> TRUE, ctorErr |-> r.err, err |-> Nil, cleanup |-> TRUE]]

\* sdktrace.TracerProvider.Shutdown with one batch span processor: a no-op
\* returning nil once shut down; otherwise the processor, its queue drained
\* by the worker, calls the exporter's Shutdown and the provider is shut
\* down.  The exporter's error goes to the SDK's error handler; sdkErr is
\* what the call returns.
TracerProviderShutdown(tpState, e, f, closeFails, sdkErr) ==
  IF tpState = "ShutDown"
    THEN [tp |-> tpState, err |-> Nil, panic |-> FALSE, file |-> f, closeCalls |-> 0]
    ELSE [tp |-> "ShutDown", err |-> sdkErr,
          panic |-> ExporterShutdown(e, f, closeFails).panic,
          file |-> ExporterShutdown(e, f, closeFails).file,
          closeCalls |-> IF e = "ptr" THEN 1 ELSE 0]

\* the exporter's Shutdown called from the closure, past the provider
cleanupShutdown_Direct(tpState, e, f, closeFails, sdkErr) ==
  [tp |-> tpState, err |-> ExporterShutdown(e, f, closeFails).err,
   panic |-> ExporterShutdown(e, f, closeFails).panic,
   file |-> ExporterShutdown(e, f, closeFails).file,
   closeCalls |-> IF e = "ptr" THEN 1 ELSE 0]

\* cleanup, line 61: err := tracerProvider.Shutdown(ctx)
cleanupShutdown(tpState, e, f, closeFails, sdkErr) ==
  TracerProviderShutdown(tpState, e, f, closeFails, sdkErr)

\* cleanup, lines 59-60: ctx, cancel := context.WithCancel(...); defer cancel()
cleanupEnter(c) ==
  [c EXCEPT !.pc = "ctx", !.ctxCancelled = FALSE, !.err = Nil]

\* a closure that panics on a shutdown error
cleanupReturn_Panics(c) ==
  [cleanup |-> [c EXCEPT !.pc = "idle", !.ctxCancelled = TRUE],
   panic |-> c.err # Nil]

\* cleanup, lines 62-65: both branches return; the deferred cancel() runs
cleanupReturn(c) ==
  [cleanup |-> [c EXCEPT !.pc = "idle", !.ctxCancelled = TRUE],
   panic |-> FALSE]

SdkErrors == {Nil, "shutdown error"}

Setup(filePath) ==
  /\ ~setup.called
  /\ exporter = "unset"
  /\ \E r \in {TraceFileProvider(disk, filePath)} :
        /\ exporter' = r.exporter
        /\ file' = r.file
        /\ disk' = r.disk
        /\ tp' = r.tp
        /\ globalTP' = r.globalTP
        /\ setup' = r.ret
  /\ UNCHANGED <<last, calls, cleanup, stats, crashed, concVars>>

\* the SDK's batch worker hands a non-empty batch to the exporter, also
\* while it drains its queue during the provider's Shutdown
WorkerExport(spans, faults) ==
  /\ tp = "Active"
  /\ ~crashed
  /\ stats.exports < MaxPipeExports
  /\ \E r \in {ExportSpans(exporter, disk, file, spans, faults)} :
        /\ disk' = r.disk
        /\ file' = r.file
        /\ crashed' = r.panic
        /\ last' = [NoCall EXCEPT !.op = "Export", !.spans = spans, !.faults = faults,
                                  !.pre = Content(disk, file), !.wasClosed = file.closed,
                                  !.err = r.err, !.panic = r.panic]
  /\ stats' = [stats EXCEPT !.exports = @ + 1]
  /\ UNCHANGED <<exporter, calls, tp, globalTP, setup, cleanup, concVars>>

CleanupEnter ==
  /\ setup.cleanup
  /\ ~crashed
  /\ cleanup.pc = "idle"
  /\ stats.teardowns < MaxTeardowns
  /\ cleanup' = cleanupEnter(cleanup)
  /\ stats' = [stats EXCEPT !.teardowns = @ + 1]
  /\ UNCHANGED <<sinkVars, tp, globalTP, setup, crashed, concVars>>

CleanupShutdown(closeFails, sdkErr) ==
  /\ cleanup.pc = "ctx"
  /\ ~crashed
  /\ \E r \in {cleanupShutdown(tp, exporter, file, closeFails, sdkErr)} :
        /\ tp' = r.tp
        /\ file' = r.file
        /\ crashed' = r.panic
        /\ stats' = [stats EXCEPT !.closeCalls = @ + r.closeCalls]
        /\ cleanup' = IF r.panic THEN cleanup
                      ELSE [cleanup EXCEPT !.pc = "shut", !.err = r.err,
                                           !.ctxAtShutdown = cleanup.ctxCancelled]
  /\ UNCHANGED <<disk, exporter, last, calls, globalTP, setup, concVars>>

CleanupReturn ==
  /\ cleanup.pc = "shut"
  /\ ~crashed
  /\ \E r \in {cleanupReturn(cleanup)} :
        /\ cleanup' = r.cleanup
        /\ crashed' = r.panic
  /\ stats' = [stats EXCEPT !.returned = @ + 1]
  /\ UNCHANGED <<sinkVars, tp, globalTP, setup, concVars>>

NextPipe ==
  \/ \E filePath \in Paths : Setup(filePath)
  \/ \E spans \in WorkerBatches : \E faults \in FaultPlans(Len(spans)) :
       WorkerExport(spans, faults)
  \/ CleanupEnter
  \/ \E closeFails \in BOOLEAN : \E sdkErr \in SdkErrors :
       CleanupShutdown(closeFails, sdkErr)
  \/ CleanupReturn

SpecPipe == Init /\ [][NextPipe]_vars

\* ------------------------------- ExportSpans called from two goroutines
\* the Write calls one record costs: a single one, document and newline
WriteCalls_Split(data) == <<data, <<"\n">>>>

WriteCalls(data) == <<Append(data, "\n")>>

\* caller p enters ExportSpans; `after` remembers who had already returned
ConcStart(p, spans) ==
  /\ exporter = "ptr"
  /\ procs[p].pc = "idle"
  /\ procs' = [procs EXCEPT ![p] =
       [NoProc EXCEPT !.pc = "loop", !.spans = spans, !.i = 1,
                      !.after = {q \in Procs : procs[q].pc = "done"}]]
  /\ UNCHANGED <<sinkVars, pipeVars, crashed, wlog>>

\* loop head and json.MarshalIndent of the next span (local to the caller)
ConcMarshal(p) ==
  /\ procs[p].pc = "loop"
  /\ LET me == procs[p]
         m == MarshalIndent(spanToMap(me.spans[me.i]))
     IN procs' = [procs EXCEPT ![p] =
          IF me.i > Len(me.spans) THEN [me EXCEPT !.pc = "done"]
          ELSE IF m.err # Nil THEN [me EXCEPT !.pc = "done", !.err = m.err]
          ELSE [me EXCEPT !.pc = "write", !.pending = WriteCalls(m.data)]]
  /\ UNCHANGED <<sinkVars, pipeVars, crashed, wlog>>

\* one f.file.Write call; the descriptor's write lock makes it atomic
ConcWrite(p) ==
  /\ procs[p].pc = "write"
  /\ LET me == procs[p]
         w == fileWrite(disk, file, Head(me.pending), NoFault)
         more == Tail(me.pending)
     IN /\ disk' = w.disk
        /\ file' = w.file
        /\ procs' = [procs EXCEPT ![p] =
             IF w.err # Nil THEN [me EXCEPT !.pc = "done", !.err = w.err, !.pending = <<>>]
             ELSE IF more # <<>> THEN [me EXCEPT !.pending = more]
             ELSE [me EXCEPT !.pc = "loop", !.pending = <<>>, !.i = me.i + 1]]
        /\ wlog' = IF w.err = Nil /\ more = <<>>
                     THEN Append(wlog, [p |-> p, i |-> me.i])
                     ELSE wlog
  /\ UNCHANGED <<exporter, last, calls, pipeVars, crashed>>

NextConc ==
  \/ \E filename \in Paths : New(filename)
  \/ \E p \in Procs : \E spans \in Batches : ConcStart(p, spans)
  \/ \E p \in Procs : ConcMarshal(p)
  \/ \E p \in Procs : ConcWrite(p)

SpecConc == Init /\ [][NextConc]_vars

\* ------------------------------------------- reading the file back
RECURSIVE CloseAt(_, _, _)
\* index of the brace that brings the depth back to 0, scanning c from i
\* at the given depth; 0 if there is none
CloseAt(c, i, depth) ==
  IF i > Len(c) THEN 0
  ELSE LET d == IF c[i] = "{" THEN depth + 1
                ELSE IF c[i] = "}" THEN depth - 1 ELSE depth
       IN IF d = 0 THEN i ELSE CloseAt(c, i + 1, d)

\* index of the brace that closes the document opened at c[1], 0 if none
DocEnd(c) == CloseAt(c, 1, 0)

RECURSIVE ParseFrom(_, _)
\* splits content c into its top-level JSON documents by brace depth; ok
\* when every document is followed by exactly one newline and nothing else
\* is in the file
ParseFrom(c, docs) ==
  IF c = <<>> THEN [ok |-> TRUE, docs |-> docs]
  ELSE IF c[1] # "{" THEN [ok |-> FALSE, docs |-> docs]
  ELSE LET e == DocEnd(c)
       IN IF e = 0 \/ e = Len(c) THEN [ok |-> FALSE, docs |-> docs]
          ELSE IF c[e + 1] # "\n" THEN [ok |-> FALSE, docs |-> docs]
          ELSE ParseFrom(SubSeq(c, e + 2, Len(c)), Append(docs, SubSeq(c, 1, e)))

ParseDocs(c) == ParseFrom(c, <<>>)

Doc(span) == MarshalIndent(spanToMap(span)).data
Serializes(span) == MarshalIndent(spanToMap(span)).err = Nil

RECURSIVE Flat(_, _)
\* the documents of spans[1..k], each followed by a newline, concatenated
Flat(spans, k) ==
  IF k = 0 THEN <<>> ELSE Flat(spans, k - 1) \o Doc(spans[k]) \o <<"\n">>

IsPrefix(a, b) == Len(a) <= Len(b) /\ a = SubSeq(b, 1, Len(a))

\* ------------------------------------------------------------- claims
\* C1: one Export of N spans on a freshly constructed sink, every
\* serialization and write succeeding, returns no error and leaves exactly
\* N documents in the file, the i-th being the serialization of the i-th
\* span, each followed by one newline; after New, Export of zero spans and
\* Shutdown the file exists and is empty, whatever it held before.
C1_ExportWritesBatchInOrder ==
  /\ ( /\ last.op = "Export" /\ exporter = "ptr" /\ Len(calls) = 2
       /\ \A i \in 1..Len(last.spans) : Serializes(last.spans[i]) /\ ~last.faults[i].fails )
     => /\ last.err = Nil /\ ~last.panic
        /\ LET parsed == ParseDocs(disk[file.path])
           IN /\ parsed.ok
              /\ Len(parsed.docs) = Len(last.spans)
              /\ \A i \in 1..Len(last.spans) : parsed.docs[i] = Doc(last.spans[i])
  /\ ( /\ exporter = "ptr" /\ Len(calls) = 3
       /\ calls[2] = [op |-> "Export", n |-> 0] /\ calls[3].op = "Shutdown" )
     => disk[file.path] = <<>>
  /\ (last.op = "New" /\ last.err = Nil) => disk[last.path] = <<>>

C1_Witness ==
  /\ last.op = "Export" /\ exporter = "ptr" /\ Len(calls) = 2
  /\ last.spans = <<SpanRequest, SpanDb>> /\ last.err = Nil
  /\ Len(ParseDocs(disk[file.path]).docs) = 2

\* C2: when serialization or the write of the k-th record fails, Export
\* returns that first error, nothing of records k+1..N reaches the file, and
\* the documents of records 1..k-1 stay in the file.
FailsAt(i) ==
  ~Serializes(last.spans[i]) \/ last.wasClosed \/ last.faults[i].fails
FirstFailure ==
  CHOOSE k \in 1..Len(last.spans) : FailsAt(k) /\ \A j \in 1..(k - 1) : ~FailsAt(j)
ErrorAt(k) ==
  IF ~Serializes(last.spans[k]) THEN MarshalIndent(spanToMap(last.spans[k])).err
  ELSE IF last.wasClosed THEN ErrClosed ELSE ErrNoSpace
C2_FirstErrorAbortsBatch ==
  ( /\ last.op = "Export" /\ exporter = "ptr"
    /\ \E i \in 1..Len(last.spans) : FailsAt(i) )
  => LET k == FirstFailure
         kept == last.pre \o Flat(last.spans, k - 1)
         now == disk[file.path]
         tail == SubSeq(now, Len(kept) + 1, Len(now))
     IN /\ last.err = ErrorAt(k)
        /\ IsPrefix(kept, now)
        /\ IF Serializes(last.spans[k]) /\ ~last.wasClosed
             THEN Len(tail) <= last.faults[k].n /\ IsPrefix(tail, Doc(last.spans[k]))
             ELSE tail = <<>>

C2_Witness ==
  /\ last.op = "Export" /\ exporter = "ptr" /\ Len(last.spans) = 2
  /\ Serializes(last.spans[1]) /\ FailsAt(2) /\ ~FailsAt(1)
  /\ last.err # Nil
  /\ disk[file.path] = last.pre \o Flat(last.spans, 1)

\* C5: NewFileSpanExporter with an unwritable path returns a non-nil error
\* and a nil sink, and opens no file handle.
C5_UnwritablePathFails ==
  (last.op = "New" /\ Dir(last.path) \notin ExistingDirs)
  => /\ last.err # Nil
     /\ exporter = Nil
     /\ ~file.opened
     /\ disk[last.path] = Absent

C5_Witness == last.op = "New" /\ last.path = BadPath /\ last.err = ErrNotExist

ShutdownCount == CallCount("Shutdown")

\* C6: of two Shutdown calls the first closes the handle, the second returns
\* an error, and the file content is what it was before the first call.
C6_SecondShutdownErrors ==
  (last.op = "Shutdown" /\ exporter = "ptr")
  => /\ file.closed
     /\ disk[file.path] = last.pre
     /\ (ShutdownCount = 1 => ~last.wasClosed /\ last.err \in {Nil, ErrIO})
     /\ (ShutdownCount >= 2 => last.wasClosed /\ last.err # Nil)

C6_Witness ==
  /\ last.op = "Shutdown" /\ exporter = "ptr" /\ ShutdownCount = 2
  /\ last.err = ErrClosed /\ disk[file.path] # <<>>

\* C7 as stated: once Shutdown closed the handle the file content never
\* changes again and every later Export of a non-empty batch returns a
\* write error.
C7_Original ==
  [][ (file.opened /\ file.closed)
      => /\ disk' = disk
         /\ (last'.op = "Export" /\ last'.spans # <<>>) => last'.err = ErrClosed ]_vars

\* C7 amended: once Shutdown closed the handle the file content never
\* changes again and every later Export of a non-empty batch returns an
\* error: the serialization error of its first record when that record does
\* not serialize, the write error of the closed handle otherwise.
C7_ClosedFileNeverWritten ==
  [][ (file.opened /\ file.closed)
      => /\ disk' = disk
         /\ (last'.op = "Export" /\ last'.spans # <<>>)
              => last'.err = IF Serializes(last'.spans[1]) THEN ErrClosed
                             ELSE MarshalIndent(spanToMap(last'.spans[1])).err ]_vars

C7_Witness ==
  /\ file.opened /\ file.closed /\ last.op = "Export" /\ Len(last.spans) = 2
  /\ last.err = ErrClosed /\ disk[file.path] = last.pre

ConstructionFailed == setup.called /\ setup.ctorErr # Nil

\* C3: when sink construction fails inside TraceFileProvider, the failure
\* is reported to the caller of TraceFileProvider.
C3_ConstructionFailureReported ==
  ConstructionFailed => setup.err # Nil

\* C4 as stated: when sink construction fails the setup routine still
\* builds the pipeline around the nil sink, installs it globally and
\* returns a teardown closure; the first Export of a non-empty batch, or
\* the sink's Shutdown reached through teardown, then hits the nil pointer.
C4_Original ==
  ConstructionFailed
  => /\ exporter = Nil /\ ~file.opened
     /\ tp # "none" /\ globalTP /\ setup.cleanup
     /\ (last.op = "Export" => last.panic /\ crashed)
     /\ (tp = "ShutDown" => crashed)
     /\ stats.returned = 0

\* C4 amended: as above, except that an Export whose first record does not
\* serialize returns that serialization error before the nil sink is
\* touched; the nil pointer is hit by an Export of a batch whose first
\* record serializes, or by the sink's Shutdown reached through teardown.
C4_NilSinkInstalledThenPanics ==
  ConstructionFailed
  => /\ exporter = Nil /\ ~file.opened
     /\ tp # "none" /\ globalTP /\ setup.cleanup
     /\ (last.op = "Export"
           => IF Serializes(last.spans[1])
                THEN last.panic /\ crashed
                ELSE ~last.panic /\ last.err = MarshalIndent(spanToMap(last.spans[1])).err)
     /\ (tp = "ShutDown" => crashed)
     /\ stats.returned = 0

C4_Witness ==
  /\ ConstructionFailed /\ exporter = Nil /\ globalTP /\ setup.cleanup
  /\ last.op = "Export" /\ ~last.panic /\ last.err = ErrUnsupportedValue
  /\ tp = "ShutDown" /\ crashed

\* C8: once set up the pipeline is Active or ShutDown; it leaves Active only
\* for ShutDown, in the shutdown step of the first teardown invocation, and
\* never returns to Active; file.Close is called at most once, and exactly
\* once as soon as a teardown has shut down a pipeline whose sink was
\* constructed.
C8_OneWayShutdown ==
  [][ /\ (setup'.called => tp' \in {"Active", "ShutDown"})
      /\ (tp = "ShutDown" => tp' = "ShutDown")
      /\ (tp = "Active" /\ tp' # "Active"
            => tp' = "ShutDown" /\ cleanup.pc = "ctx" /\ stats.teardowns = 1)
      /\ (tp = "Active" /\ cleanup.pc = "ctx" /\ cleanup'.pc = "shut" => tp' = "ShutDown")
      /\ stats'.closeCalls <= 1
      /\ (exporter' = "ptr" /\ tp' = "ShutDown"
            => stats'.closeCalls = 1 /\ file'.closed) ]_vars

C8_Witness ==
  /\ tp = "ShutDown" /\ exporter = "ptr" /\ stats.teardowns = 2
  /\ stats.returned = 2 /\ stats.closeCalls = 1 /\ file.closed

\* C9: the teardown closure returns normally whether the pipeline shutdown
\* returned nil or an error (and whether the file close failed), surfacing
\* nothing, and its context is cancelled only after the shutdown call has
\* returned.
C9_TeardownSwallowsErrors ==
  /\ (cleanup.pc = "ctx" => ~cleanup.ctxCancelled)
  /\ (cleanup.pc = "shut" => ~cleanup.ctxCancelled /\ ~cleanup.ctxAtShutdown)
  /\ (stats.returned >= 1 /\ cleanup.pc = "idle"
        => /\ ~crashed
           /\ cleanup.ctxCancelled /\ ~cleanup.ctxAtShutdown)

C9_Witness ==
  /\ stats.returned = 1 /\ cleanup.pc = "idle" /\ cleanup.err # Nil
  /\ cleanup.ctxCancelled /\ ~crashed /\ file.closed

\* positions of the file's records that caller p wrote
RecordsOf(p) == {j \in 1..Len(wlog) : wlog[j].p = p}

\* C10: each record reaches the file by a single write of its document plus
\* newline, so under two concurrent Export calls the file is a sequence of
\* whole documents; the records of the two batches may interleave, each
\* batch's records keep their relative order, and when one call returned
\* before the other began the file is the first call's records followed by
\* the second's.
C10_RecordsInterleaveWhole ==
  (exporter = "ptr" /\ \E p \in Procs : procs[p].pc # "idle")
  => LET parsed == ParseDocs(disk[file.path])
     IN /\ parsed.ok
        /\ Len(parsed.docs) = Len(wlog)
        /\ \A j \in 1..Len(wlog) :
             parsed.docs[j] = Doc(procs[wlog[j].p].spans[wlog[j].i])
        /\ \A p \in Procs :
             /\ \A j, k \in RecordsOf(p) : j < k => wlog[j].i < wlog[k].i
             /\ {wlog[j].i : j \in RecordsOf(p)} = 1..Cardinality(RecordsOf(p))
             /\ procs[p].pc = "done" /\ procs[p].err = Nil
                  => Cardinality(RecordsOf(p)) = Len(procs[p].spans)
        /\ \A p, q \in Procs :
             q \in procs[p].after
               => /\ \A j \in RecordsOf(q), k \in RecordsOf(p) : j < k
                  /\ disk[file.path] =
                       Flat(procs[q].spans, Cardinality(RecordsOf(q)))
                         \o Flat(procs[p].spans, Cardinality(RecordsOf(p)))

\* two concurrent calls whose records alternate in the file
C10_Witness ==
  /\ procs[1].pc = "done" /\ procs[2].pc = "done"
  /\ procs[1].after = {} /\ procs[2].after = {}
  /\ Len(wlog) = 4
  /\ wlog[1].p = 1 /\ wlog[2].p = 2 /\ wlog[3].p = 1 /\ wlog[4].p = 2
  /\ ParseDocs(disk[file.path]).ok
====
